---- MODULE Spec2Model ----
(***************************************************************************)
(* A model of scripts/replicate_paper.py: the Experiment pipeline of       *)
(* main() -- generate, check_resume, run_commands, parse_output, plot,     *)
(* print_result -- for the two experiments EndpointScaling and Deployments.*)
(*                                                                         *)
(* Text is modelled as a sequence of symbols.  A symbol is one character   *)
(* ("," "'" "\\" "n" "\n" "." "-" and the digits) or one atomic word that  *)
(* holds none of these characters (a column name, the marker phrase, a log *)
(* message).  Numbers read from text are exact rationals [n, d]; the       *)
(* floating-point rounding of pandas/numpy is not modelled.                *)
(***************************************************************************)
EXTENDS Integers, Sequences, FiniteSets, TLC

VARIABLES
    experiment,   \* args.experiment: which Experiment subclass main() built
    modes,        \* self.modes
    cores,        \* self.cores
    endpoints,    \* self.endpoints
    configs,      \* self.configs (Deployments only, <<>> otherwise)
    resume,       \* self.resume: None or the threshold timestamp
    logs,         \* the directory ./logs: a set of files
    runs,         \* self.runs
    pc,           \* the statement of main() that runs next
    run_i,        \* position of the `for run in self.runs` loop in progress
    i,            \* the local `i` of parse_output (survives from run to run)
    inflight,     \* the run positions whose execute call has spawned a process and not returned
    calls,        \* history: the run positions execute was called for, in call order
    writes,       \* history: <<position, "resume" | "execution">> per assignment of run["output"]
    resumed,      \* history: how many times check_resume was entered
    errors,       \* history: how many execute calls returned error output
    reported,     \* history: the reporter calls made ("plot", "print_result")
    wdf,          \* the local `wdf` of parse_output: the worker table built last
    edf,          \* the local `edf` of parse_output: the endpoint table built last
    exception,    \* the exception that ended main(), None when there is none
    exit_status,  \* the exit status of the script, None while it runs
    returned,     \* what self.execute returned last: None or Some of [stdout, stderr]
    pipes         \* the child process of the execute call in progress and its two pipes

vars == <<experiment, modes, cores, endpoints, configs, resume, logs, runs, pc,
          run_i, i, inflight, calls, writes, resumed, errors, reported,
          wdf, edf, exception, exit_status, returned, pipes>>

----------------------------------------------------------------------------
(* Python's None and a value that is set.  A field that may be None holds  *)
(* <<>> for None and <<v>> for the value v, so that an empty list [] (set) *)
(* differs from None (unset).                                              *)
None == <<>>
Some(v) == <<v>>

(* No execute call is inside Popen..readlines: no child, no pipes.         *)
NoProcess ==
    [program |-> <<>>, at |-> 1, out |-> <<>>, err |-> <<>>, out_open |-> FALSE,
     err_open |-> FALSE, phase |-> "idle", output |-> <<>>, error |-> <<>>]
IsSet(o) == o # None
Val(o) == o[1]

Range(s) == {s[k] : k \in DOMAIN s}

RECURSIVE Flatten(_)
Flatten(ss) == IF ss = <<>> THEN <<>> ELSE Head(ss) \o Flatten(Tail(ss))

----------------------------------------------------------------------------
(* The grids of the two experiments.                                       *)
EndpointScalingModes == <<"cloud", "edge", "endpoint">>
EndpointScalingCores == <<4, 2, 1>>
EndpointScalingEndpoints == <<1, 2, 4, 8>>

DeploymentsConfigs == <<"cloud.cfg", "edge_large.cfg", "edge_small.cfg", "mist.cfg">>
DeploymentsModes == <<"cloud", "edge", "edge", "edge">>
DeploymentsCores == <<4, 4, 2, 2>>
DeploymentsEndpoints == <<4, 4, 2, 1>>
config_path == "configuration/experiment_large_deployments/"

(* config.split(".")[0] for the configuration names of the model.          *)
ConfigStem(config) ==
    CASE config = "cloud.cfg" -> "cloud"
      [] config = "edge_large.cfg" -> "edge_large"
      [] config = "edge_small.cfg" -> "edge_small"
      [] config = "mist.cfg" -> "mist"
      [] OTHER -> config

(* The dict a generate() appends.  EndpointScaling's dict has no "config"  *)
(* key and neither has "usage", "latency" or "latency_breakdown" before    *)
(* parse_output sets them: an absent key is None here.                     *)
NewRun(mode, core, endpoint, config, command) ==
    [mode |-> mode, cores |-> core, endpoints |-> endpoint, config |-> config,
     command |-> command, output |-> None, worker_time |-> None,
     usage |-> None, latency |-> None, latency_breakdown |-> None]

(* EndpointScaling.generate: one mode of the outer loop.                   *)
EndpointScalingModeRunsNoSkip(ms, cs, es, m) ==
    LET mode == ms[m]
        config == IF mode = "cloud" THEN "cloud_endpoint"
                  ELSE IF mode = "edge" THEN "edge_endpoint" ELSE "endpoint"
        core == IF mode = "cloud" THEN cs[1] ELSE IF mode = "edge" THEN cs[2] ELSE cs[3]
        one(e) == <<NewRun(mode, core, es[e], None,
                      <<"python3", "main.py", "-v",
                        "configuration/experiment_endpoint_scaling/" \o config
                            \o ToString(es[e]) \o ".cfg">>)>>
    IN  Flatten([e \in 1..Len(es) |-> one(e)])
EndpointScalingModeRuns(ms, cs, es, m) ==
    LET mode == ms[m]
        config == IF mode = "cloud" THEN "cloud_endpoint"
                  ELSE IF mode = "edge" THEN "edge_endpoint" ELSE "endpoint"
        core == IF mode = "cloud" THEN cs[1] ELSE IF mode = "edge" THEN cs[2] ELSE cs[3]
        one(e) == IF mode = "endpoint" /\ es[e] > 1
                  THEN <<>>
                  ELSE <<NewRun(mode, core, es[e], None,
                           <<"python3", "main.py", "-v",
                             "configuration/experiment_endpoint_scaling/" \o config
                                 \o ToString(es[e]) \o ".cfg">>)>>
    IN  Flatten([e \in 1..Len(es) |-> one(e)])

(* EndpointScaling.generate: the runs appended, modes outer, endpoints     *)
(* inner.                                                                  *)
EndpointScalingGenerate(ms, cs, es) ==
    Flatten([m \in 1..Len(ms) |-> EndpointScalingModeRuns(ms, cs, es, m)])

Min2(a, b) == IF a < b THEN a ELSE b

(* Deployments.generate: zip() stops at the shortest list.                 *)
DeploymentsGenerate(cfgs, ms, cs, es) ==
    LET n == Min2(Min2(Len(cfgs), Len(ms)), Min2(Len(cs), Len(es)))
    IN  [k \in 1..n |->
            NewRun(ms[k], cs[k], es[k], Some(ConfigStem(cfgs[k])),
                   <<"python3", "main.py", "-v", config_path \o cfgs[k]>>)]

----------------------------------------------------------------------------
(* The directory ./logs.  A file name is an atomic word; what the code     *)
(* reads off a name (its place in sorted order, endswith(".log"), the      *)
(* result of strptime on its first two "_" fields) is tabulated for the    *)
(* names of the model.  Timestamps are day numbers.  A directory is a      *)
(* function from the names present to their contents (lists of lines).     *)
LogNames ==
    << "2023-01-01_10:00:00_a.log",
       "2023-01-02_10:00:00.log",
       "2023-01-02_10:00:00_a.log",
       "2023-01-02_10:00:00_b.log",
       "2023-01-03_10:00:00_a.log",
       "2023-01-03_10:00:00_b.log",
       "2023-01-03_10:00:00_c.log" >>
    \o [k \in 1..9 |-> "2023-01-04_10:00:0" \o ToString(k) \o "_run.log"]
    \o
    << "2023-01-1_10:00:00_a.log",
       "EndpointScaling_load_2023-01-02_10:00:00.pdf",
       "notes.log" >>

(* list.sort() on names: the place of a name in lexicographic order.       *)
NameOrd(name) == CHOOSE k \in DOMAIN LogNames : LogNames[k] = name

(* f.endswith(".log")                                                      *)
EndsWithLog(name) == name # "EndpointScaling_load_2023-01-02_10:00:00.pdf"

(* splits = log.split("_"); strptime(splits[0] + "_" + splits[1], fmt):    *)
(* Some(day) when it parses, None when the code raises: IndexError for a   *)
(* name with no "_", ValueError for a prefix that is not a date and time   *)
(* ("10:00:00.log" has unconverted data, "EndpointScaling" is no date).    *)
(* strptime takes the unpadded day of "2023-01-1".                         *)
Strptime(name) ==
    CASE name = "2023-01-01_10:00:00_a.log" -> Some(1)
      [] name = "2023-01-1_10:00:00_a.log" -> Some(1)
      [] name \in {"2023-01-02_10:00:00_a.log", "2023-01-02_10:00:00_b.log"} -> Some(2)
      [] name \in {"2023-01-03_10:00:00_a.log", "2023-01-03_10:00:00_b.log",
                   "2023-01-03_10:00:00_c.log"} -> Some(3)
      [] \E k \in 1..9 : name = "2023-01-04_10:00:0" \o ToString(k) \o "_run.log" -> Some(4)
      [] OTHER -> None

(* The exception the two statements raise on a name they do not parse:     *)
(* splits[1] raises IndexError when the name has no "_", strptime          *)
(* ValueError otherwise.                                                   *)
StrptimeError(name) == IF name = "notes.log" THEN "IndexError" ELSE "ValueError"

(* [f for f in os.listdir(log_location) if f.endswith(".log")]; logs.sort() *)
RECURSIVE SortNames(_)
SortNames(names) ==
    IF names = {} THEN <<>>
    ELSE LET first == CHOOSE n \in names : \A o \in names : NameOrd(n) <= NameOrd(o)
         IN  <<first>> \o SortNames(names \ {first})

SortedLogs(dir) == SortNames({n \in DOMAIN dir : EndsWithLog(n)})

----------------------------------------------------------------------------
(* Text.  What the benchmark writes: log lines, the marker line, and a     *)
(* table as repr(df.to_csv()): a quote, the rows each ended by the two     *)
(* characters backslash and n, a quote, and the line's newline.  The first *)
(* field of every row is the index to_csv adds (empty in the header row).  *)
Digit(d) == ToString(d)

RECURSIVE Digits(_)
Digits(n) == IF n < 10 THEN <<Digit(n)>> ELSE Digits(n \div 10) \o <<Digit(n % 10)>>

(* A measurement of v tenths of a millisecond as to_csv prints a float.    *)
NumText(v) ==
    LET a == IF v < 0 THEN -v ELSE v
    IN  (IF v < 0 THEN <<"-">> ELSE <<>>) \o Digits(a \div 10) \o <<".">> \o Digits(a % 10)

EncodeRow(index, fields) ==
    index \o Flatten([f \in 1..Len(fields) |-> <<",">> \o fields[f]]) \o <<"\\", "n">>

PayloadLine(header, rows) ==
    <<"'">> \o EncodeRow(<<>>, header)
            \o Flatten([r \in 1..Len(rows) |-> EncodeRow(Digits(r - 1), rows[r])])
            \o <<"'", "\n">>

TextLine == <<"Starting the benchmark", "\n">>
MarkerLine == <<"[DEBUG] ", "Output in csv format", "\n">>

WorkerHeader == << <<"proc_time/data (ms)">>, <<"delay_avg (ms)">> >>
EndpointHeader == << <<"latency_avg (ms)">>, <<"preproc_time/data (ms)">> >>
SingleHeader == WorkerHeader \o EndpointHeader

(* An output of the paired shape: w and e are lists of rows of             *)
(* measurements in tenths of a millisecond.                                *)
PairedOutput(w, e) ==
    << TextLine, MarkerLine,
       PayloadLine(WorkerHeader, [r \in 1..Len(w) |-> [c \in 1..Len(w[r]) |-> NumText(w[r][c])]]),
       PayloadLine(EndpointHeader, [r \in 1..Len(e) |-> [c \in 1..Len(e[r]) |-> NumText(e[r][c])]]) >>

(* An output of the single shape (endpoint-only deployment): one table     *)
(* with the worker's and the endpoint's columns.                           *)
SingleOutput(t) ==
    << TextLine, MarkerLine,
       PayloadLine(SingleHeader, [r \in 1..Len(t) |-> [c \in 1..Len(t[r]) |-> NumText(t[r][c])]]) >>

(* A log that holds the metrics twice (the marker and the tables of w1, e1 *)
(* and then those of w2, e2).                                              *)
TwoBlockOutput(w1, e1, w2, e2) ==
    PairedOutput(w1, e1) \o SubSeq(PairedOutput(w2, e2), 2, 4)

(* An output without the marker, and an empty log file.                    *)
NoMarkerOutput == << TextLine, <<"Traceback", "\n">> >>
EmptyOutput == <<>>

(* The line the benchmark prints when it is done, naming its log file.     *)
PointerLine(name) == <<"Finished, see the log above ", "and file at ", name, "\n">>

----------------------------------------------------------------------------
(* Floats.  A float is NaN or an exact rational n/d with d > 0.            *)
NaN == [nan |-> TRUE, n |-> 0, d |-> 1]
Num(n, d) == [nan |-> FALSE, n |-> n, d |-> d]
FAdd(a, b) == IF a.nan \/ b.nan THEN NaN ELSE Num(a.n * b.d + b.n * a.d, a.d * b.d)
FSub(a, b) == IF a.nan \/ b.nan THEN NaN ELSE Num(a.n * b.d - b.n * a.d, a.d * b.d)
FMul(a, b) == IF a.nan \/ b.nan THEN NaN ELSE Num(a.n * b.n, a.d * b.d)
(* a / b for b # 0 *)
FDiv(a, b) ==
    IF a.nan \/ b.nan THEN NaN
    ELSE IF b.n < 0 THEN Num(-(a.n * b.d), a.d * (-b.n)) ELSE Num(a.n * b.d, a.d * b.n)
FLess(a, b) == a.n * b.d < b.n * a.d

(* int(x) of a float that is not NaN: truncation toward zero.              *)
IntFloor(x) == x.n \div x.d
IntRoundNearest(x) ==
    IF x.n >= 0 THEN (2 * x.n + x.d) \div (2 * x.d) ELSE -((2 * (-x.n) + x.d) \div (2 * x.d))
IntCeiling(x) == -((-x.n) \div x.d)
int(x) == IF x.n >= 0 THEN x.n \div x.d ELSE -((-x.n) \div x.d)

----------------------------------------------------------------------------
(* String operations of parse_output.                                      *)

(* "Output in csv format" in line                                          *)
HasMarker(line) == \E k \in DOMAIN line : line[k] = "Output in csv format"

(* line[1:-4]                                                              *)
Slice1m3(line) == SubSeq(line, 2, Len(line) - 3)
Slice1m4(line) == SubSeq(line, 2, Len(line) - 4)

(* The first position where sep occurs in s, 0 when it does not.           *)
Find(s, sep) ==
    LET hits == {k \in 1..(Len(s) - Len(sep) + 1) : SubSeq(s, k, k + Len(sep) - 1) = sep}
    IN  IF hits = {} THEN 0 ELSE CHOOSE k \in hits : \A h \in hits : k <= h

(* s.split(sep): the pieces between the occurrences of sep, empty pieces   *)
(* kept, at least one piece.                                               *)
RECURSIVE Split(_, _)
Split(s, sep) ==
    LET k == Find(s, sep)
    IN  IF k = 0 THEN <<s>>
        ELSE <<SubSeq(s, 1, k - 1)>> \o Split(SubSeq(s, k + Len(sep), Len(s)), sep)

(* [x.split(",") for x in payload.split("\\n")], then [sub[1:] for sub in ...] *)
PayloadRows(payload) ==
    LET w1 == LET rows == Split(payload, <<"\\", "n">>)
              IN  [r \in 1..Len(rows) |-> Split(rows[r], <<",">>)]
    IN  [r \in 1..Len(w1) |-> SubSeq(w1[r], 2, Len(w1[r]))]

(* pd.DataFrame(data, columns=columns) for a list of lists: a row shorter  *)
(* than the longest row is filled with None; ValueError when the longest   *)
(* row does not have len(columns) fields.  A cell is Some(text) or None.   *)
DataFrame(data, columns) ==
    LET width == IF data = <<>> THEN Len(columns)
                 ELSE CHOOSE m \in {Len(data[r]) : r \in 1..Len(data)} :
                          \A r \in 1..Len(data) : Len(data[r]) <= m
    IN  IF width # Len(columns)
        THEN [ok |-> FALSE, columns |-> columns, rows |-> <<>>]
        ELSE [ok |-> TRUE, columns |-> columns,
              rows |-> [r \in 1..Len(data) |->
                          [c \in 1..width |->
                              IF c <= Len(data[r]) THEN Some(data[r][c]) ELSE None]]]

IsDigit(c) == \E d \in 0..9 : c = Digit(d)
DigitVal(c) == CHOOSE d \in 0..9 : c = Digit(d)

RECURSIVE DigitsVal(_)
DigitsVal(ds) ==
    IF ds = <<>> THEN 0 ELSE 10 * DigitsVal(SubSeq(ds, 1, Len(ds) - 1)) + DigitVal(ds[Len(ds)])

RECURSIVE Pow10(_)
Pow10(k) == IF k = 0 THEN 1 ELSE 10 * Pow10(k - 1)

(* The text of a decimal number: an optional sign, digits, an optional     *)
(* point and digits, at least one digit.                                   *)
IsNumeral(text) ==
    LET body == IF text # <<>> /\ text[1] = "-" THEN Tail(text) ELSE text
        dot == Find(body, <<".">>)
        whole == IF dot = 0 THEN body ELSE SubSeq(body, 1, dot - 1)
        frac == IF dot = 0 THEN <<>> ELSE SubSeq(body, dot + 1, Len(body))
    IN  /\ \A k \in DOMAIN whole : IsDigit(whole[k])
        /\ \A k \in DOMAIN frac : IsDigit(frac[k])
        /\ Len(whole) + Len(frac) > 0

NumeralValue(text) ==
    LET neg == text[1] = "-"
        body == IF neg THEN Tail(text) ELSE text
        dot == Find(body, <<".">>)
        whole == IF dot = 0 THEN body ELSE SubSeq(body, 1, dot - 1)
        frac == IF dot = 0 THEN <<>> ELSE SubSeq(body, dot + 1, Len(body))
        n == DigitsVal(whole) * Pow10(Len(frac)) + DigitsVal(frac)
    IN  Num(IF neg THEN -n ELSE n, Pow10(Len(frac)))

(* pd.to_numeric of one cell: None and the empty text become NaN, the text *)
(* of a number its value; any other text raises ValueError.                *)
CellParses(cell) == cell = None \/ Val(cell) = <<>> \/ IsNumeral(Val(cell))
CellValue(cell) ==
    IF cell = None \/ Val(cell) = <<>> THEN NaN ELSE NumeralValue(Val(cell))

(* df[name] = pd.to_numeric(df[name]): KeyError when no column has the     *)
(* name, TypeError when several have it (df[name] is then a DataFrame),    *)
(* ValueError when a cell does not parse.  The result keeps the column's   *)
(* values as floats.                                                       *)
ColumnAt(df, name) == {c \in DOMAIN df.columns : df.columns[c] = <<name>>}
ToNumericOk(df, name) ==
    /\ Cardinality(ColumnAt(df, name)) = 1
    /\ LET c == CHOOSE c \in ColumnAt(df, name) : TRUE
       IN  \A r \in DOMAIN df.rows : CellParses(df.rows[r][c])
ToNumeric(df, name) ==
    LET c == CHOOSE c \in ColumnAt(df, name) : TRUE
    IN  [r \in DOMAIN df.rows |-> CellValue(df.rows[r][c])]

(* df[name] = pd.to_numeric(df[name]) as a statement: the exception it     *)
(* raises (None when it raises none) and the table after it, the cells of  *)
(* the column replaced by their floats.  A cell of a table is None,        *)
(* Some(text) or Float(x).                                                 *)
Float(x) == <<"float", x>>
ToNumericError(df, name) ==
    IF ColumnAt(df, name) = {} THEN Some("KeyError")
    ELSE IF Cardinality(ColumnAt(df, name)) > 1 THEN Some("TypeError")
    ELSE IF ~ToNumericOk(df, name) THEN Some("ValueError")
    ELSE None
Coerce(df, name) ==
    [df EXCEPT !.rows = [r \in DOMAIN df.rows |->
                            [c \in DOMAIN df.rows[r] |->
                                IF c \in ColumnAt(df, name) THEN Float(CellValue(df.rows[r][c]))
                                ELSE df.rows[r][c]]]]

(* The to_numeric statements of a table one after the other, up to the     *)
(* first that raises.                                                      *)
RECURSIVE CoerceAll(_, _)
CoerceAll(df, names) ==
    IF names = <<>> THEN [df |-> df, exception |-> None]
    ELSE IF ToNumericError(df, Head(names)) # None
         THEN [df |-> df, exception |-> ToNumericError(df, Head(names))]
         ELSE CoerceAll(Coerce(df, Head(names)), Tail(names))

(* Series.mean() and Series.min(): NaN cells are skipped; NaN when no cell *)
(* is left.                                                                *)
NotNaN(series) == SelectSeq(series, LAMBDA x : ~x.nan)

RECURSIVE FSum(_)
FSum(series) == IF series = <<>> THEN Num(0, 1) ELSE FAdd(Head(series), FSum(Tail(series)))

SeriesMean(series) ==
    LET xs == NotNaN(series)
    IN  IF xs = <<>> THEN NaN ELSE FDiv(FSum(xs), Num(Len(xs), 1))

SeriesMin(series) ==
    LET xs == NotNaN(series)
    IN  IF xs = <<>> THEN NaN
        ELSE xs[CHOOSE k \in DOMAIN xs : \A j \in DOMAIN xs : ~FLess(xs[j], xs[k])]

----------------------------------------------------------------------------
(* Experiment.check_resume.                                                *)

(* dt >= self.resume                                                       *)
AtOrAfterStrict(dt, threshold) == dt > threshold
AtOrAfter(dt, threshold) == dt >= threshold

(* The loop `for log in logs` from the names still to visit: rs is         *)
(* self.runs, exp_i the cursor (0-based, as in the code), ws the history   *)
(* of assignments.  It ends when the names are exhausted, at the break, or *)
(* with an exception: strptime raising on the name, or self.runs[exp_i]    *)
(* out of range (an empty run list).                                       *)
RECURSIVE ResumeLoop(_, _, _, _, _, _)
ResumeLoop(names, dir, threshold, rs, exp_i, ws) ==
    IF names = <<>> THEN [runs |-> rs, writes |-> ws, raised |-> FALSE, exception |-> None]
    ELSE LET log == Head(names)
             dt == Strptime(log)
         IN  IF dt = None
             THEN [runs |-> rs, writes |-> ws, raised |-> TRUE,
                   exception |-> Some(StrptimeError(log))]
             ELSE IF ~AtOrAfter(Val(dt), threshold)
                  THEN ResumeLoop(Tail(names), dir, threshold, rs, exp_i, ws)
             ELSE IF exp_i + 1 > Len(rs)
                  THEN [runs |-> rs, writes |-> ws, raised |-> TRUE,
                        exception |-> Some("IndexError")]
             ELSE LET rs2 == [rs EXCEPT ![exp_i + 1].output = Some(dir[log])]
                      ws2 == Append(ws, <<exp_i + 1, "resume", log>>)
                  IN  IF exp_i + 1 = Len(rs2)
                      THEN [runs |-> rs2, writes |-> ws2, raised |-> FALSE,
                            exception |-> None]
                      ELSE ResumeLoop(Tail(names), dir, threshold, rs2, exp_i + 1, ws2)

check_resumeDropsFilled(dir, threshold, rs, ws) ==
    IF threshold = None THEN [runs |-> rs, writes |-> ws, raised |-> FALSE, exception |-> None]
    ELSE LET r == ResumeLoop(SortedLogs(dir), dir, Val(threshold), rs, 0, ws)
         IN  [r EXCEPT !.runs = SelectSeq(r.runs, LAMBDA run : run.output = None)
                                   \o SelectSeq(r.runs, LAMBDA run : run.output # None)]
check_resumeByContent(dir, threshold, rs, ws) ==
    IF threshold = None THEN [runs |-> rs, writes |-> ws, raised |-> FALSE, exception |-> None]
    ELSE ResumeLoop(SelectSeq(SortedLogs(dir), LAMBDA name : dir[name] # <<>>),
                    dir, Val(threshold), rs, 0, ws)
check_resume(dir, threshold, rs, ws) ==
    IF threshold = None THEN [runs |-> rs, writes |-> ws, raised |-> FALSE, exception |-> None]
    ELSE ResumeLoop(SortedLogs(dir), dir, Val(threshold), rs, 0, ws)

----------------------------------------------------------------------------
(* Experiment.run_commands and Experiment.execute.                         *)

(* The two `continue`s: an empty command, or an output got with --resume.  *)
SkipsCommandOnly(run) == run.command = <<>>
SkipsInverted(run) == run.command = <<>> \/ run.output = None
Skips(run) == run.command = <<>> \/ run.output # None

(* if error != []: ... sys.exit()                                          *)
FatalNever(error) == FALSE
Fatal(error) == error # <<>>

(* sys.exit() with no argument raises SystemExit(None): the interpreter    *)
(* ends with status 0, the status of a script that ran to its end.         *)
SysExitStatus == 0

(* output[0].rstrip().split("and file at ")[-1]: the text after the last   *)
(* "and file at ", the trailing newline stripped.  A file name is one      *)
(* word, so the path is the word left, or no name of a file at all.        *)
LogPath(line) ==
    LET stripped == IF line # <<>> /\ line[Len(line)] = "\n"
                    THEN SubSeq(line, 1, Len(line) - 1) ELSE line
        pieces == Split(stripped, <<"and file at ">>)
    IN  pieces[Len(pieces)]

(* open(logpath, "r") succeeds                                             *)
CanOpen(dir, path) == Len(path) = 1 /\ path[1] \in DOMAIN dir

(* logpath = output[0]...; f = open(logpath, "r"); f.readlines(): the      *)
(* lines of the file the first line of the captured output names.          *)
ReadLogKeepsOutput(dir, output) == output
ReadLog(dir, output) == dir[LogPath(output[1])[1]]

----------------------------------------------------------------------------
(* parse_output: one iteration of `for run in self.runs`.                  *)
frequency == 5

(* The value of the local i after `for i, line in enumerate(output)`:      *)
(* the 0-based index of the first marker line; of the last line when no    *)
(* line has the marker; what it was before (prev) when output is empty.    *)
ScanIndexLast(output, prev) ==
    LET hits == {k \in DOMAIN output : HasMarker(output[k])}
    IN  IF hits # {} THEN Some((CHOOSE k \in hits : \A h \in hits : k >= h) - 1)
        ELSE IF output # <<>> THEN Some(Len(output) - 1)
        ELSE prev
ScanIndex(output, prev) ==
    LET hits == {k \in DOMAIN output : HasMarker(output[k])}
    IN  IF hits # {} THEN Some((CHOOSE k \in hits : \A h \in hits : k <= h) - 1)
        ELSE IF output # <<>> THEN Some(Len(output) - 1)
        ELSE prev

(* The 0-based indexes of the worker and the endpoint payload lines.       *)
WorkerIndex(mode, idx) == idx + 1
EndpointIndexPaired(mode, idx) == idx + 2
EndpointIndex(mode, idx) == IF mode # "endpoint" THEN idx + 2 ELSE idx + 1

(* output[k] for a 0-based k >= 0 does not raise IndexError                *)
InRange(output, k) == k + 1 <= Len(output)

(* worker.split / sub[1:] / pd.DataFrame of one payload line               *)
Table(line) ==
    LET w2 == PayloadRows(Slice1m4(line))
    IN  DataFrame(SubSeq(w2, 2, Len(w2)), w2[1])

(* The two tables of a run, read at index idx of its own output.           *)
WorkerTable(run, idx) == Table(Val(run.output)[WorkerIndex(run.mode, idx) + 1])
EndpointTable(run, idx) == Table(Val(run.output)[EndpointIndex(run.mode, idx) + 1])

(* Everything up to the DataFrames succeeds: enumerate(None) raises        *)
(* TypeError, an unbound i UnboundLocalError, a line index past the end    *)
(* IndexError, a DataFrame of the wrong width ValueError.                  *)
TablesOk(run, idx) ==
    /\ IsSet(run.output)
    /\ IsSet(idx)
    /\ InRange(Val(run.output), WorkerIndex(run.mode, Val(idx)))
    /\ InRange(Val(run.output), EndpointIndex(run.mode, Val(idx)))
    /\ WorkerTable(run, Val(idx)).ok
    /\ EndpointTable(run, Val(idx)).ok

(* processed_rate = 1000.0 / aggregate * cores; usage = int(requested_rate *)
(* / processed_rate * 100).  A zero aggregate makes processed_rate         *)
(* infinite (numpy division) and the quotient 0.0.                         *)
requested_rate(run) == Num(frequency * run.endpoints, 1)
processed_rate(aggregate, run) == FMul(FDiv(Num(1000, 1), aggregate), Num(run.cores, 1))
UsageRatio(aggregate, run) ==
    IF aggregate.n = 0 THEN Num(0, 1)
    ELSE FMul(FDiv(requested_rate(run), processed_rate(aggregate, run)), Num(100, 1))
UsageAccumulates(aggregate, run) ==
    int(UsageRatio(aggregate, run)) + (IF IsSet(run.usage) THEN Val(run.usage) ELSE 0)
Usage(aggregate, run) == int(UsageRatio(aggregate, run))

(* The statements of EndpointScaling.parse_output after the tables, in     *)
(* order, up to the first that raises: a failed to_numeric or int(NaN)     *)
(* leaves what was assigned before it.                                     *)
EndpointScalingMetrics(run, wt, et) ==
    IF ~(ToNumericOk(wt, "proc_time/data (ms)") /\ ToNumericOk(et, "latency_avg (ms)"))
    THEN [run |-> run, raised |-> TRUE]
    ELSE LET proc == SeriesMean(ToNumeric(wt, "proc_time/data (ms)"))
             lat == SeriesMean(ToNumeric(et, "latency_avg (ms)"))
         IN  IF proc.nan THEN [run |-> run, raised |-> TRUE]
             ELSE LET r1 == [run EXCEPT !.usage = Some(Usage(proc, run))]
                  IN  IF lat.nan THEN [run |-> r1, raised |-> TRUE]
                      ELSE [run |-> [r1 EXCEPT !.latency = Some(int(lat))],
                            raised |-> FALSE]

(* The same for Deployments.parse_output: four numeric columns, min        *)
(* instead of mean, and the latency breakdown.                             *)
DeploymentsMetrics(run, wt, et) ==
    IF ~(/\ ToNumericOk(wt, "proc_time/data (ms)")
         /\ ToNumericOk(wt, "delay_avg (ms)")
         /\ ToNumericOk(et, "latency_avg (ms)")
         /\ ToNumericOk(et, "preproc_time/data (ms)"))
    THEN [run |-> run, raised |-> TRUE]
    ELSE LET proc == SeriesMin(ToNumeric(wt, "proc_time/data (ms)"))
             lat == SeriesMin(ToNumeric(et, "latency_avg (ms)"))
             pre == SeriesMin(ToNumeric(et, "preproc_time/data (ms)"))
         IN  IF proc.nan THEN [run |-> run, raised |-> TRUE]
             ELSE LET r1 == [run EXCEPT !.usage = Some(Usage(proc, run))]
                  IN  IF lat.nan THEN [run |-> r1, raised |-> TRUE]
                      ELSE LET r2 == [r1 EXCEPT !.latency = Some(int(lat))]
                           IN  IF pre.nan THEN [run |-> r2, raised |-> TRUE]
                               ELSE [run |-> [r2 EXCEPT !.latency_breakdown =
                                          Some(<<int(proc), int(FSub(FSub(lat, pre), proc))>>)],
                                     raised |-> FALSE]

(* The columns each experiment converts with pd.to_numeric, in the order   *)
(* of the statements.                                                      *)
WorkerNumeric(exp) ==
    IF exp = "EndpointScaling" THEN <<"proc_time/data (ms)">>
    ELSE <<"proc_time/data (ms)", "delay_avg (ms)">>
EndpointNumeric(exp) ==
    IF exp = "EndpointScaling" THEN <<"latency_avg (ms)">>
    ELSE <<"latency_avg (ms)", "preproc_time/data (ms)">>

(* The locals wdf and edf after the statements of one iteration up to the  *)
(* last to_numeric, and the exception that ended them (None when none      *)
(* did), in the order of the code: enumerate(None) raises TypeError, an    *)
(* unbound i UnboundLocalError, a line index past the end IndexError, a    *)
(* DataFrame of the wrong width ValueError, to_numeric as above.  w and e  *)
(* are the locals as the iterations before left them.                      *)
ParseLocals(exp, run, idx, w, e) ==
    IF run.output = None THEN [wdf |-> w, edf |-> e, exception |-> Some("TypeError")]
    ELSE IF idx = None THEN [wdf |-> w, edf |-> e, exception |-> Some("UnboundLocalError")]
    ELSE IF ~(/\ InRange(Val(run.output), WorkerIndex(run.mode, Val(idx)))
              /\ InRange(Val(run.output), EndpointIndex(run.mode, Val(idx))))
         THEN [wdf |-> w, edf |-> e, exception |-> Some("IndexError")]
    ELSE LET wt == WorkerTable(run, Val(idx))
         IN  IF ~wt.ok THEN [wdf |-> w, edf |-> e, exception |-> Some("ValueError")]
             ELSE LET wc == CoerceAll(wt, WorkerNumeric(exp))
                  IN  IF wc.exception # None
                      THEN [wdf |-> Some(wc.df), edf |-> e, exception |-> wc.exception]
                      ELSE LET et == EndpointTable(run, Val(idx))
                           IN  IF ~et.ok
                               THEN [wdf |-> Some(wc.df), edf |-> e,
                                     exception |-> Some("ValueError")]
                               ELSE LET ec == CoerceAll(et, EndpointNumeric(exp))
                                    IN  [wdf |-> Some(wc.df), edf |-> Some(ec.df),
                                         exception |-> ec.exception]

(* One iteration of parse_output for the run at position k of rs, with the *)
(* locals i, wdf and edf as the iterations before left them.  int() of a   *)
(* NaN aggregate raises ValueError.                                        *)
ParseRun(exp, rs, k, prev, w, e) ==
    LET run == rs[k]
        idx == IF IsSet(run.output) THEN ScanIndex(Val(run.output), prev) ELSE prev
        locals == ParseLocals(exp, run, idx, w, e)
    IN  IF ~TablesOk(run, idx)
        THEN [run |-> run, i |-> idx, raised |-> TRUE, exception |-> locals.exception,
              wdf |-> locals.wdf, edf |-> locals.edf]
        ELSE LET m == IF exp = "EndpointScaling"
                      THEN EndpointScalingMetrics(run, WorkerTable(run, Val(idx)),
                                                  EndpointTable(run, Val(idx)))
                      ELSE DeploymentsMetrics(run, WorkerTable(run, Val(idx)),
                                              EndpointTable(run, Val(idx)))
             IN  [run |-> m.run, i |-> idx, raised |-> m.raised,
                  exception |-> IF locals.exception # None THEN locals.exception
                                ELSE IF m.raised THEN Some("ValueError") ELSE None,
                  wdf |-> locals.wdf, edf |-> locals.edf]

----------------------------------------------------------------------------
(* The external benchmark (main.py), as execute sees it: what it prints on *)
(* stdout and stderr and the log file it leaves in ./logs.                 *)

(* The name of the log file the benchmark writes for the run at position k *)
FreshName(k) == "2023-01-04_10:00:0" \o ToString(k) \o "_run.log"

(* A well-formed log of the benchmark for a run: the shape follows the     *)
(* mode, the measurements (tenths of a millisecond) the configuration.     *)
BenchOutput(run) ==
    LET p == 250 + 15 * run.endpoints + 2 * run.cores
        l == 2000 + 125 * run.endpoints
    IN  IF run.mode = "endpoint"
        THEN SingleOutput(<< <<p, 20, l, 300>>, <<p + 7, 25, l + 31, 310>> >>)
        ELSE PairedOutput(<< <<p, 20>>, <<p + 7, 25>> >>,
                          << <<l, 300>>, <<l + 31, 310>> >>)

ErrorLine == <<"Traceback (most recent call last)", "\n">>
DoneLine == <<"Done", "\n">>

(* What one invocation for the run at position k of rs can do: succeed    *)
(* (its log written, the pointer line printed, alone or with a line after  *)
(* it), fail with error output     *)
(* before or after it wrote its log, print nothing at all, or print the    *)
(* pointer to a log that is not there.                                     *)
Outcomes(rs, k) ==
    { [stdout |-> <<PointerLine(FreshName(k))>>, stderr |-> <<>>,
       file |-> Some(<<FreshName(k), BenchOutput(rs[k])>>)],
      [stdout |-> <<PointerLine(FreshName(k)), DoneLine>>, stderr |-> <<>>,
       file |-> Some(<<FreshName(k), BenchOutput(rs[k])>>)],
      [stdout |-> <<>>, stderr |-> <<ErrorLine>>, file |-> None],
      [stdout |-> <<PointerLine(FreshName(k))>>, stderr |-> <<ErrorLine>>,
       file |-> Some(<<FreshName(k), BenchOutput(rs[k])>>)],
      [stdout |-> <<>>, stderr |-> <<>>, file |-> None],
      [stdout |-> <<PointerLine(FreshName(k))>>, stderr |-> <<>>, file |-> None] }

(* ./logs after the process wrote its file                                 *)
WithFile(dir, file) ==
    IF file = None THEN dir
    ELSE [n \in DOMAIN dir \cup {Val(file)[1]} |->
            IF n = Val(file)[1] THEN Val(file)[2] ELSE dir[n]]

----------------------------------------------------------------------------
(* main(): the state after the Experiment object is constructed, and one   *)
(* action per call of main() and per loop iteration inside the calls.      *)

MaxFiles == 4
MaxLogs == 6

SubsetsUpTo(S, n) == {T \in SUBSET S : Cardinality(T) <= n}
SeqsUpTo(S, n) == UNION {[1..m -> S] : m \in 0..n}

(* self.modes, self.cores, self.endpoints, self.configs as __init__ sets   *)
(* them; AtGenerate is main() about to call exp.generate(), self.runs      *)
(* still empty.                                                            *)
Constructed(e) ==
    /\ experiment = e
    /\ modes = IF e = "EndpointScaling" THEN EndpointScalingModes ELSE DeploymentsModes
    /\ cores = IF e = "EndpointScaling" THEN EndpointScalingCores ELSE DeploymentsCores
    /\ endpoints = IF e = "EndpointScaling" THEN EndpointScalingEndpoints
                   ELSE DeploymentsEndpoints
    /\ configs = IF e = "EndpointScaling" THEN <<>> ELSE DeploymentsConfigs

AtGenerate ==
    /\ runs = <<>>
    /\ pc = "generate" /\ run_i = 1 /\ i = None /\ inflight = {}
    /\ calls = <<>> /\ writes = <<>> /\ resumed = 0 /\ errors = 0 /\ reported = <<>>
    /\ wdf = None /\ edf = None /\ exception = None /\ exit_status = None
    /\ returned = None /\ pipes = NoProcess

(* Log directories of the pipeline: up to MaxFiles files, each the log of  *)
(* an earlier benchmark run or, depending on the file, a log that holds    *)
(* the metrics twice, no marker, or nothing.  Without --resume the         *)
(* directory is never listed, so it starts empty.                          *)
PipelineNames ==
    {"2023-01-01_10:00:00_a.log", "2023-01-02_10:00:00_a.log", "2023-01-02_10:00:00_b.log",
     "2023-01-03_10:00:00_a.log", "2023-01-03_10:00:00_b.log", "notes.log"}
EarlierLog == BenchOutput(NewRun("cloud", 4, 1, None, <<>>))
TwiceLog ==
    TwoBlockOutput(<< <<400, 20>> >>, << <<3000, 300>> >>,
                   << <<900, 20>> >>, << <<5000, 300>> >>)
PipelineContents(name) ==
    CASE name = "2023-01-02_10:00:00_a.log" -> {EarlierLog, TwiceLog}
      [] name = "2023-01-02_10:00:00_b.log" -> {EarlierLog, NoMarkerOutput}
      [] name = "2023-01-03_10:00:00_a.log" -> {EarlierLog, EmptyOutput}
      [] name = "2023-01-03_10:00:00_b.log" -> {EarlierLog, TwiceLog}
      [] name = "notes.log" -> {NoMarkerOutput}
      [] OTHER -> {EarlierLog}
PipelineDirs(n) ==
    UNION { {dir \in [T -> {EarlierLog, TwiceLog, NoMarkerOutput, EmptyOutput}] :
                \A name \in T : dir[name] \in PipelineContents(name)} :
            T \in SubsetsUpTo(PipelineNames, n) }

Init ==
    /\ \E e \in {"EndpointScaling", "Deployments"} : Constructed(e)
    /\ \/ resume = None /\ logs = << >>
       \/ resume = Some(2) /\ logs \in PipelineDirs(MaxFiles)
    /\ AtGenerate

(* The calls of main() in order: what runs after the call named.          *)
AfterCallResumeLate(call) ==
    CASE call = "generate" -> "run_commands"
      [] call = "run_commands" -> "check_resume"
      [] call = "check_resume" -> "parse_output"
      [] call = "parse_output" -> "plot"
      [] call = "plot" -> "print_result"
      [] call = "print_result" -> "done"
AfterCallSkipsParse(call) ==
    CASE call = "generate" -> "check_resume"
      [] call = "check_resume" -> "run_commands"
      [] call = "run_commands" -> "plot"
      [] call = "parse_output" -> "plot"
      [] call = "plot" -> "print_result"
      [] call = "print_result" -> "done"
AfterCall(call) ==
    CASE call = "generate" -> "check_resume"
      [] call = "check_resume" -> "run_commands"
      [] call = "run_commands" -> "parse_output"
      [] call = "parse_output" -> "plot"
      [] call = "plot" -> "print_result"
      [] call = "print_result" -> "done"

(* exp.generate()                                                          *)
generate(e, cfgs, ms, cs, es) ==
    IF e = "EndpointScaling" THEN EndpointScalingGenerate(ms, cs, es)
    ELSE DeploymentsGenerate(cfgs, ms, cs, es)

Generate ==
    /\ pc = "generate"
    /\ runs' = runs \o generate(experiment, configs, modes, cores, endpoints)
    /\ pc' = AfterCall("generate")
    /\ UNCHANGED <<pipes, experiment, modes, cores, endpoints, configs, resume, logs,
                   run_i, i, inflight, calls, writes, resumed, errors, reported,
                   wdf, edf, exception, exit_status, returned>>

(* exp.check_resume()                                                      *)
CheckResume ==
    /\ pc = "check_resume"
    /\ \E r \in {check_resume(logs, resume, runs, writes)} :
           /\ runs' = r.runs
           /\ writes' = r.writes
           /\ pc' = IF r.raised THEN "raised" ELSE AfterCall("check_resume")
           /\ exception' = r.exception
           /\ exit_status' = IF r.raised THEN Some(1) ELSE None
    /\ resumed' = resumed + 1
    /\ run_i' = 1
    /\ UNCHANGED <<pipes, experiment, modes, cores, endpoints, configs, resume, logs,
                   i, inflight, calls, errors, reported, wdf, edf, returned>>

(* run_commands: an iteration that hits one of the two `continue`s.        *)
SkipRun ==
    /\ pc = "run_commands"
    /\ run_i <= Len(runs)
    /\ Skips(runs[run_i])
    /\ run_i' = run_i + 1
    /\ UNCHANGED <<pipes, experiment, modes, cores, endpoints, configs, resume, logs, runs,
                   pc, i, inflight, calls, writes, resumed, errors, reported,
                   wdf, edf, exception, exit_status, returned>>

(* run_commands: self.execute(run["command"]) spawns the process.          *)
Execute ==
    /\ pc = "run_commands"
    /\ run_i <= Len(runs)
    /\ ~Skips(runs[run_i])
    /\ inflight' = inflight \cup {run_i}
    /\ calls' = Append(calls, run_i)
    /\ pc' = "execute"
    /\ returned' = None
    /\ UNCHANGED <<pipes, experiment, modes, cores, endpoints, configs, resume, logs, runs,
                   run_i, i, writes, resumed, errors, reported,
                   wdf, edf, exception, exit_status>>

(* execute returns (both pipes read to the end) and the iteration goes on: *)
(* sys.exit() on error output; else the log file named by the first line   *)
(* of the output is read into run["output"].  output[0] raises IndexError  *)
(* on an empty output and open() FileNotFoundError on a missing file.      *)
ExecuteReturn ==
    /\ pc = "execute"
    /\ \E o \in Outcomes(runs, run_i) :
          /\ logs' = WithFile(logs, o.file)
          /\ errors' = IF o.stderr # <<>> THEN errors + 1 ELSE errors
          /\ IF Fatal(o.stderr)
             THEN /\ pc' = "exit"
                  /\ exception' = None /\ exit_status' = Some(SysExitStatus)
                  /\ UNCHANGED <<runs, run_i, writes>>
             ELSE IF o.stdout = <<>> \/ ~CanOpen(logs', LogPath(o.stdout[1]))
                  THEN /\ pc' = "raised"
                       /\ exception' = Some(IF o.stdout = <<>> THEN "IndexError"
                                             ELSE "FileNotFoundError")
                       /\ exit_status' = Some(1)
                       /\ UNCHANGED <<runs, run_i, writes>>
                  ELSE LET logpath == LogPath(o.stdout[1])[1]
                       IN  /\ runs' = [runs EXCEPT ![run_i].output =
                                          Some(ReadLog(logs', o.stdout))]
                           /\ writes' = Append(writes, <<run_i, "execution", logpath>>)
                           /\ run_i' = run_i + 1
                           /\ pc' = "run_commands"
                           /\ UNCHANGED <<exception, exit_status>>
          /\ returned' = Some([stdout |-> o.stdout, stderr |-> o.stderr])
    /\ inflight' = inflight \ {run_i}
    /\ UNCHANGED <<pipes, experiment, modes, cores, endpoints, configs, resume, i, calls,
                   resumed, reported, wdf, edf>>

(* run_commands returns; exp.parse_output() starts.                        *)
RunCommandsDone ==
    /\ pc = "run_commands"
    /\ run_i > Len(runs)
    /\ pc' = AfterCall("run_commands")
    /\ run_i' = 1
    /\ UNCHANGED <<pipes, experiment, modes, cores, endpoints, configs, resume, logs, runs,
                   i, inflight, calls, writes, resumed, errors, reported,
                   wdf, edf, exception, exit_status, returned>>

(* parse_output: one iteration.                                            *)
ParseOutput ==
    /\ pc = "parse_output"
    /\ run_i <= Len(runs)
    /\ \E r \in {ParseRun(experiment, runs, run_i, i, wdf, edf)} :
           /\ runs' = [runs EXCEPT ![run_i] = r.run]
           /\ i' = r.i
           /\ wdf' = r.wdf
           /\ edf' = r.edf
           /\ pc' = IF r.raised THEN "raised" ELSE "parse_output"
           /\ exception' = r.exception
           /\ exit_status' = IF r.raised THEN Some(1) ELSE None
           /\ run_i' = IF r.raised THEN run_i ELSE run_i + 1
    /\ UNCHANGED <<pipes, experiment, modes, cores, endpoints, configs, resume, logs,
                   inflight, calls, writes, resumed, errors, reported, returned>>

(* parse_output returns; exp.plot() starts.                                *)
ParseOutputDone ==
    /\ pc = "parse_output"
    /\ run_i > Len(runs)
    /\ pc' = AfterCall("parse_output")
    /\ UNCHANGED <<pipes, experiment, modes, cores, endpoints, configs, resume, logs, runs,
                   run_i, i, inflight, calls, writes, resumed, errors, reported,
                   wdf, edf, exception, exit_status, returned>>

(* exp.plot(): reads run["usage"] and run["latency"] of the runs (KeyError *)
(* when one is missing); the figure itself is not modelled.                *)
Plot ==
    /\ pc = "plot"
    /\ reported' = Append(reported, "plot")
    /\ IF \A k \in DOMAIN runs : IsSet(runs[k].usage) /\ IsSet(runs[k].latency)
       THEN pc' = AfterCall("plot") /\ UNCHANGED <<exception, exit_status>>
       ELSE pc' = "raised" /\ exception' = Some("KeyError") /\ exit_status' = Some(1)
    /\ UNCHANGED <<pipes, experiment, modes, cores, endpoints, configs, resume, logs, runs,
                   run_i, i, inflight, calls, writes, resumed, errors, wdf, edf, returned>>

(* exp.print_result()                                                      *)
PrintResult ==
    /\ pc = "print_result"
    /\ reported' = Append(reported, "print_result")
    /\ pc' = AfterCall("print_result")
    /\ exit_status' = Some(0)
    /\ UNCHANGED <<pipes, experiment, modes, cores, endpoints, configs, resume, logs, runs,
                   run_i, i, inflight, calls, writes, resumed, errors, wdf, edf, exception,
                   returned>>

Next ==
    \/ Generate
    \/ CheckResume
    \/ SkipRun
    \/ Execute
    \/ ExecuteReturn
    \/ RunCommandsDone
    \/ ParseOutput
    \/ ParseOutputDone
    \/ Plot
    \/ PrintResult

Spec == Init /\ [][Next]_vars

----------------------------------------------------------------------------
(* The resume scan alone, over larger log directories: every file holds    *)
(* one line with its own name, so a content tells which file it is.        *)
InitialNames ==
    {LogNames[k] : k \in 1..7} \cup
    {"2023-01-1_10:00:00_a.log", "EndpointScaling_load_2023-01-02_10:00:00.pdf", "notes.log"}
OwnName(name) == << <<name, "\n">> >>
NamedDirs(n) == {[name \in T |-> OwnName(name)] : T \in SubsetsUpTo(InitialNames, n)}

InitResume ==
    /\ \E e \in {"EndpointScaling", "Deployments"} : Constructed(e)
    /\ resume \in {None, Some(1), Some(2), Some(3)}
    /\ logs \in NamedDirs(MaxLogs)
    /\ AtGenerate

NextResume == Generate \/ CheckResume

SpecResume == InitResume /\ [][NextResume]_vars

----------------------------------------------------------------------------
(* The metrics alone: parse_output over run lists whose outputs hold       *)
(* tables of measurements drawn from small sets (tenths of a millisecond). *)
(* Every run was executed and holds a log of the same measurements, in the *)
(* shape of its mode.                                                      *)
MaxRows == 2
ProcTimes == {269, 500, 1000}
LatencyAndPreproc == {<<795, 300>>, <<2000, 300>>}

MeasuredOutput(mode, p, lq) ==
    IF mode = "endpoint"
    THEN SingleOutput([r \in DOMAIN p |-> <<p[r], 20, lq[r][1], lq[r][2]>>])
    ELSE PairedOutput([r \in DOMAIN p |-> <<p[r], 20>>], lq)

InitMetrics ==
    /\ \E e \in {"EndpointScaling", "Deployments"} : Constructed(e)
    /\ resume = None
    /\ \E n \in 1..MaxRows :
         \E p \in [1..n -> ProcTimes], lq \in [1..n -> LatencyAndPreproc] :
            LET rs == generate(experiment, configs, modes, cores, endpoints)
            IN  /\ runs = [k \in DOMAIN rs |->
                            [rs[k] EXCEPT !.output = Some(MeasuredOutput(rs[k].mode, p, lq))]]
                /\ logs = [name \in {FreshName(k) : k \in DOMAIN rs} |->
                            MeasuredOutput("cloud", p, lq)]
                /\ calls = [k \in DOMAIN rs |-> k]
                /\ writes = [k \in DOMAIN rs |-> <<k, "execution", FreshName(k)>>]
    /\ pc = "parse_output" /\ run_i = 1 /\ i = None /\ inflight = {}
    /\ resumed = 1 /\ errors = 0 /\ reported = <<>>
    /\ wdf = None /\ edf = None /\ exception = None /\ exit_status = None
    /\ returned = None /\ pipes = NoProcess

NextMetrics == ParseOutput \/ ParseOutputDone

SpecMetrics == InitMetrics /\ [][NextMetrics]_vars

----------------------------------------------------------------------------
(* The extraction alone: parse_output over run lists whose outputs hold    *)
(* one table of text fields, encoded as the benchmark encodes its tables.  *)
(* The header is free text (a, or a and b) or the four columns of the      *)
(* benchmark; a field is digits, a backslash, or empty.  The worker line   *)
(* holds the table, the endpoint line of the paired shape the same table   *)
(* with its rows in reverse order.                                         *)
MaxTableRows == 2
Fields == {<<"1">>, <<"\\">>, <<>>}
MeasuredRows == {<<NumText(269), NumText(20), NumText(795), NumText(300)>>,
                 <<NumText(500), NumText(20), NumText(2000), NumText(300)>>}
TableHeaders == {<< <<"a">> >>, << <<"a">>, <<"b">> >>, SingleHeader}
TextRows == {<< <<"1">>, <<"2">> >>, << <<"3">>, <<"4">> >>, << <<"\\">>, <<>> >>}
TableRows(header) ==
    IF header = SingleHeader THEN MeasuredRows
    ELSE IF Len(header) = 2 THEN TextRows
    ELSE [1..Len(header) -> Fields]
Tables(n) ==
    UNION {{[header |-> h, rows |-> rows] : rows \in [1..m -> TableRows(h)]} :
           h \in TableHeaders, m \in 0..n}
Reverse(s) == [k \in 1..Len(s) |-> s[Len(s) + 1 - k]]
TableOutput(mode, t) ==
    IF mode = "endpoint"
    THEN <<TextLine, MarkerLine, PayloadLine(t.header, t.rows)>>
    ELSE <<TextLine, MarkerLine, PayloadLine(t.header, t.rows),
           PayloadLine(t.header, Reverse(t.rows))>>

InitTables ==
    /\ \E e \in {"EndpointScaling", "Deployments"} : Constructed(e)
    /\ resume = None
    /\ \E t \in Tables(MaxTableRows) :
            LET rs == generate(experiment, configs, modes, cores, endpoints)
            IN  /\ runs = [k \in DOMAIN rs |->
                            [rs[k] EXCEPT !.output = Some(TableOutput(rs[k].mode, t))]]
                /\ logs = [name \in {FreshName(k) : k \in DOMAIN rs} |->
                            TableOutput("cloud", t)]
                /\ calls = [k \in DOMAIN rs |-> k]
                /\ writes = [k \in DOMAIN rs |-> <<k, "execution", FreshName(k)>>]
    /\ pc = "parse_output" /\ run_i = 1 /\ i = None /\ inflight = {}
    /\ resumed = 1 /\ errors = 0 /\ reported = <<>>
    /\ wdf = None /\ edf = None /\ exception = None /\ exit_status = None
    /\ returned = None /\ pipes = NoProcess

NextTables == ParseOutput \/ ParseOutputDone

SpecTables == InitTables /\ [][NextTables]_vars

----------------------------------------------------------------------------
(* The extraction over logs that are not what the benchmark writes when it *)
(* succeeds: the run list is the generated one, every run holds a          *)
(* well-formed log except the run at one position, which holds a log       *)
(* without the marker, an empty log, a log that ends at the marker, or a   *)
(* log whose tables have a short row, a long row, a cell that is no        *)
(* number, or no latency at all.                                           *)
GoodWorkerRows == << <<NumText(269), NumText(20)>>, <<NumText(500), NumText(20)>> >>
GoodEndpointRows == << <<NumText(795), NumText(300)>>, <<NumText(2000), NumText(300)>> >>
NotANumber == <<"a", "b", "c">>

(* A log with the tables of text rows w and e in the shape of the mode;    *)
(* the rows of the single shape are those of w and e side by side.         *)
RowsOutput(mode, w, e) ==
    IF mode = "endpoint"
    THEN <<TextLine, MarkerLine,
           PayloadLine(SingleHeader, [r \in DOMAIN w |-> w[r] \o e[r]])>>
    ELSE <<TextLine, MarkerLine, PayloadLine(WorkerHeader, w), PayloadLine(EndpointHeader, e)>>

GoodOutput(mode) == RowsOutput(mode, GoodWorkerRows, GoodEndpointRows)
MarkerLastOutput == <<TextLine, MarkerLine>>
MalformedOutputs(mode) ==
    [ no_marker |-> NoMarkerOutput,
      empty |-> EmptyOutput,
      marker_last |-> MarkerLastOutput,
      short_worker |-> RowsOutput(mode, <<GoodWorkerRows[1], <<>> >>, GoodEndpointRows),
      short_endpoint |-> RowsOutput(mode, GoodWorkerRows, <<GoodEndpointRows[1], <<>> >>),
      long_worker |-> RowsOutput(mode, <<GoodWorkerRows[1], GoodWorkerRows[2] \o <<NumText(99)>> >>,
                                 GoodEndpointRows),
      long_endpoint |-> RowsOutput(mode, GoodWorkerRows,
                                   <<GoodEndpointRows[1], GoodEndpointRows[2] \o <<NumText(99)>> >>),
      text_worker |-> RowsOutput(mode, <<GoodWorkerRows[1], <<NotANumber, NumText(20)>> >>,
                                 GoodEndpointRows),
      text_endpoint |-> RowsOutput(mode, GoodWorkerRows,
                                   <<GoodEndpointRows[1], <<NotANumber, NumText(300)>> >>),
      no_latency |-> RowsOutput(mode, GoodWorkerRows,
                                << <<<<>>, NumText(300)>>, <<<<>>, NumText(300)>> >>),
      good |-> GoodOutput(mode) ]

InitExtract ==
    /\ \E e \in {"EndpointScaling", "Deployments"} : Constructed(e)
    /\ resume = None
    /\ LET rs == generate(experiment, configs, modes, cores, endpoints)
       IN  \E b \in DOMAIN rs, shape \in DOMAIN MalformedOutputs("cloud") :
              /\ runs = [k \in DOMAIN rs |->
                          [rs[k] EXCEPT !.output =
                              Some(IF k = b THEN MalformedOutputs(rs[k].mode)[shape]
                                   ELSE GoodOutput(rs[k].mode))]]
              /\ logs = [name \in {FreshName(k) : k \in DOMAIN rs} |->
                          Val(runs[CHOOSE k \in DOMAIN rs : name = FreshName(k)].output)]
              /\ calls = [k \in DOMAIN rs |-> k]
              /\ writes = [k \in DOMAIN rs |-> <<k, "execution", FreshName(k)>>]
    /\ pc = "parse_output" /\ run_i = 1 /\ i = None /\ inflight = {}
    /\ resumed = 1 /\ errors = 0 /\ reported = <<>>
    /\ wdf = None /\ edf = None /\ exception = None /\ exit_status = None
    /\ returned = None /\ pipes = NoProcess

SpecExtract == InitExtract /\ [][NextMetrics]_vars

(* A caller that invokes exp.parse_output() once more on the same object,  *)
(* after the call before returned or after it caught the exception the     *)
(* call raised: the loop starts over at the first run and the locals i,    *)
(* wdf and edf of the new call are unbound.                                *)
ParseOutputAgain ==
    /\ \/ pc = AfterCall("parse_output")
       \/ pc = "raised" /\ reported = <<>> /\ run_i \in DOMAIN runs
    /\ pc' = "parse_output"
    /\ run_i' = 1
    /\ i' = None /\ wdf' = None /\ edf' = None
    /\ exception' = None /\ exit_status' = None
    /\ UNCHANGED <<pipes, experiment, modes, cores, endpoints, configs, resume, logs, runs,
                   inflight, calls, writes, resumed, errors, reported, returned>>

NextReparse == ParseOutput \/ ParseOutputDone \/ ParseOutputAgain

SpecReparse == InitExtract /\ [][NextReparse]_vars

----------------------------------------------------------------------------
(* The extraction over well-formed logs in which the marker is not always  *)
(* the second line and not always followed by the tables alone: the run at *)
(* position k has (lead + k) % (MaxLead + 1) lines of text before the      *)
(* marker, and after its tables nothing, a line of text, one more payload  *)
(* line, or the marker and the tables once more (with other rows).         *)
MaxLead == 2
ShapeTails(mode) ==
    [ none |-> <<>>,
      text |-> <<TextLine>>,
      payload |-> <<PayloadLine(SingleHeader,
                                [r \in DOMAIN Reverse(GoodWorkerRows) |->
                                    Reverse(GoodWorkerRows)[r] \o Reverse(GoodEndpointRows)[r]])>>,
      again |-> SubSeq(RowsOutput(mode, Reverse(GoodWorkerRows), Reverse(GoodEndpointRows)), 2,
                       Len(RowsOutput(mode, Reverse(GoodWorkerRows), Reverse(GoodEndpointRows)))) ]
ShapeOutput(mode, lead, tail) ==
    [k \in 1..lead |-> TextLine] \o SubSeq(GoodOutput(mode), 2, Len(GoodOutput(mode)))
                                 \o ShapeTails(mode)[tail]

InitShape ==
    /\ \E e \in {"EndpointScaling", "Deployments"} : Constructed(e)
    /\ resume = None
    /\ LET rs == generate(experiment, configs, modes, cores, endpoints)
       IN  \E lead \in 0..MaxLead, tail \in DOMAIN ShapeTails("cloud") :
              /\ runs = [k \in DOMAIN rs |->
                          [rs[k] EXCEPT !.output =
                              Some(ShapeOutput(rs[k].mode, (lead + k) % (MaxLead + 1), tail))]]
              /\ logs = [name \in {FreshName(k) : k \in DOMAIN rs} |->
                          Val(runs[CHOOSE k \in DOMAIN rs : name = FreshName(k)].output)]
              /\ calls = [k \in DOMAIN rs |-> k]
              /\ writes = [k \in DOMAIN rs |-> <<k, "execution", FreshName(k)>>]
    /\ pc = "parse_output" /\ run_i = 1 /\ i = None /\ inflight = {}
    /\ resumed = 1 /\ errors = 0 /\ reported = <<>>
    /\ wdf = None /\ edf = None /\ exception = None /\ exit_status = None
    /\ returned = None /\ pipes = NoProcess

SpecShape == InitShape /\ [][NextMetrics]_vars

----------------------------------------------------------------------------
(* The resume scan over directories whose files differ in content: a file  *)
(* holds its own name, nothing at all, or a whole log of the benchmark.    *)
MaxContentLogs == 3
ContentNames ==
    {"2023-01-01_10:00:00_a.log", "2023-01-02_10:00:00_a.log", "2023-01-02_10:00:00_b.log",
     "2023-01-03_10:00:00_a.log", "notes.log"}
Contents(name) == {OwnName(name), EmptyOutput, GoodOutput("cloud")}
ContentDirs(n) ==
    UNION {{d \in [T -> UNION {Contents(name) : name \in T}] :
               \A name \in T : d[name] \in Contents(name)} :
           T \in SubsetsUpTo(ContentNames, n)}

InitContent ==
    /\ \E e \in {"EndpointScaling", "Deployments"} : Constructed(e)
    /\ resume \in {None, Some(1), Some(2), Some(3)}
    /\ logs \in ContentDirs(MaxContentLogs)
    /\ AtGenerate

SpecContent == InitContent /\ [][NextResume]_vars

----------------------------------------------------------------------------
(* execute in steps: the child process and the two pipes of Popen.  The    *)
(* child runs a program of at most MaxOps operations (write a line to its  *)
(* standard output, write a line to its standard error, close its standard *)
(* output) and then exits, which closes what it still has open.  A pipe    *)
(* holds at most PipeCapacity lines: a write to a full pipe blocks.  The   *)
(* parent reads standard output to end-of-file (stdout.readlines()), then  *)
(* standard error to end-of-file (stderr.readlines()), then returns.       *)
MaxOps == 4
PipeCapacity == 2
Programs(n) ==
    {p \in SeqsUpTo({"out", "err", "close_out"}, n) :
        \A a \in DOMAIN p : p[a] = "close_out" =>
            \A b \in (a + 1)..Len(p) : p[b] = "err"}
WrittenLine(op, at) == <<op, ToString(at), "\n">>

InitPipes ==
    /\ \E e \in {"EndpointScaling", "Deployments"} : Constructed(e)
    /\ resume = None /\ logs = << >>
    /\ runs = generate(experiment, configs, modes, cores, endpoints)
    /\ pc = "execute" /\ run_i = 1 /\ i = None /\ inflight = {1}
    /\ calls = <<1>> /\ writes = <<>> /\ resumed = 1 /\ errors = 0 /\ reported = <<>>
    /\ wdf = None /\ edf = None /\ exception = None /\ exit_status = None
    /\ returned = None
    /\ \E p \in Programs(MaxOps) :
          pipes = [program |-> p, at |-> 1, out |-> <<>>, err |-> <<>>, out_open |-> TRUE,
                   err_open |-> TRUE, phase |-> "stdout", output |-> <<>>, error |-> <<>>]

Unchanged == UNCHANGED <<experiment, modes, cores, endpoints, configs, resume, logs, runs, pc,
                         run_i, i, inflight, calls, writes, resumed, errors, reported,
                         wdf, edf, exception, exit_status>>

(* The child writes a line: the write returns when the pipe has room.      *)
ChildWrite ==
    /\ pipes.at <= Len(pipes.program)
    /\ \/ /\ pipes.program[pipes.at] = "out"
          /\ Len(pipes.out) < PipeCapacity
          /\ pipes' = [pipes EXCEPT !.out = Append(@, WrittenLine("out", pipes.at)),
                                    !.at = @ + 1]
       \/ /\ pipes.program[pipes.at] = "err"
          /\ Len(pipes.err) < PipeCapacity
          /\ pipes' = [pipes EXCEPT !.err = Append(@, WrittenLine("err", pipes.at)),
                                    !.at = @ + 1]
    /\ UNCHANGED returned
    /\ Unchanged

(* The child closes its standard output.                                   *)
ChildCloseStdout ==
    /\ pipes.at <= Len(pipes.program)
    /\ pipes.program[pipes.at] = "close_out"
    /\ pipes' = [pipes EXCEPT !.out_open = FALSE, !.at = @ + 1]
    /\ UNCHANGED returned
    /\ Unchanged

(* The child exits: the write ends it still holds are closed.              *)
ChildExit ==
    /\ pipes.at > Len(pipes.program)
    /\ pipes.out_open \/ pipes.err_open
    /\ pipes' = [pipes EXCEPT !.out_open = FALSE, !.err_open = FALSE]
    /\ UNCHANGED returned
    /\ Unchanged

(* process.stdout.readlines(): takes the lines in the pipe, returns at     *)
(* end-of-file (pipe empty and its write end closed).                      *)
ReadStdout ==
    /\ pipes.phase = "stdout"
    /\ pipes.out # <<>>
    /\ pipes' = [pipes EXCEPT !.output = Append(@, Head(pipes.out)), !.out = Tail(@)]
    /\ UNCHANGED returned
    /\ Unchanged

StdoutEOF ==
    /\ pipes.phase = "stdout"
    /\ pipes.out = <<>> /\ ~pipes.out_open
    /\ pipes' = [pipes EXCEPT !.phase = "stderr"]
    /\ UNCHANGED returned
    /\ Unchanged

(* process.stderr.readlines(), entered after stdout.readlines() returned   *)
ReadStderr ==
    /\ pipes.phase = "stderr"
    /\ pipes.err # <<>>
    /\ pipes' = [pipes EXCEPT !.error = Append(@, Head(pipes.err)), !.err = Tail(@)]
    /\ UNCHANGED returned
    /\ Unchanged

(* return output, error                                                    *)
StderrEOF ==
    /\ pipes.phase = "stderr"
    /\ pipes.err = <<>> /\ ~pipes.err_open
    /\ pipes' = [pipes EXCEPT !.phase = "returned"]
    /\ returned' = Some([stdout |-> pipes.output, stderr |-> pipes.error])
    /\ Unchanged

NextPipes ==
    \/ ChildWrite
    \/ ChildCloseStdout
    \/ ChildExit
    \/ ReadStdout
    \/ StdoutEOF
    \/ ReadStderr
    \/ StderrEOF

SpecPipes == InitPipes /\ [][NextPipes]_vars

(* The operating system runs the child whenever it can take a step, and    *)
(* the parent's read returns whenever there is a line or end-of-file.      *)
FairSpecPipes ==
    /\ SpecPipes
    /\ WF_vars(ChildWrite \/ ChildCloseStdout \/ ChildExit)
    /\ WF_vars(ReadStdout \/ StdoutEOF \/ ReadStderr \/ StderrEOF)

----------------------------------------------------------------------------
(* generate over other settings than those __init__ writes: self.modes and *)
(* self.endpoints are lists the object holds ("the current settings"), set *)
(* here to any list of up to MaxModes modes and to any list of up to       *)
(* MaxEndpoints endpoint counts (or left as constructed) before main calls *)
(* generate and check_resume.                                              *)
MaxModes == 3
MaxEndpoints == 2
GridModes == {"cloud", "edge", "endpoint"}
GridEndpoints == {0, 1, 2}
GridLogs ==
    [name \in {"2023-01-02_10:00:00_a.log", "2023-01-03_10:00:00_a.log"} |-> OwnName(name)]

InitGrid ==
    /\ experiment \in {"EndpointScaling", "Deployments"}
    /\ cores = IF experiment = "EndpointScaling" THEN EndpointScalingCores ELSE DeploymentsCores
    /\ configs = IF experiment = "EndpointScaling" THEN <<>> ELSE DeploymentsConfigs
    /\ modes \in SeqsUpTo(GridModes, MaxModes)
    /\ endpoints \in SeqsUpTo(GridEndpoints, MaxEndpoints)
                     \cup {IF experiment = "EndpointScaling" THEN EndpointScalingEndpoints
                           ELSE DeploymentsEndpoints}
    /\ resume \in {None, Some(2)}
    /\ logs = GridLogs
    /\ AtGenerate

SpecGrid == InitGrid /\ [][NextResume]_vars

----------------------------------------------------------------------------
(* C1: for modes [cloud, edge, endpoint] and endpoint counts [1, 2, 4, 8], *)
(* EndpointScaling.generate on an empty run list leaves exactly 9 runs:    *)
(* cloud with 1, 2, 4, 8 endpoints, edge with 1, 2, 4, 8, endpoint with 1. *)
C1_GenerateNineRuns ==
    (experiment = "EndpointScaling" /\ pc # "generate") =>
        [k \in DOMAIN runs |-> <<runs[k].mode, runs[k].endpoints>>] =
            << <<"cloud", 1>>, <<"cloud", 2>>, <<"cloud", 4>>, <<"cloud", 8>>,
               <<"edge", 1>>, <<"edge", 2>>, <<"edge", 4>>, <<"edge", 8>>,
               <<"endpoint", 1>> >>

C1_Witness ==
    /\ experiment = "EndpointScaling"
    /\ modes = <<"cloud", "edge", "endpoint">> /\ endpoints = <<1, 2, 4, 8>>
    /\ pc = "check_resume"
    /\ Len(runs) = 9 /\ runs[9].mode = "endpoint"

(* C2: after check_resume has run with a threshold on a freshly generated  *)
(* list, with E the logs of timestamp >= the threshold in ascending name   *)
(* order: run j holds the content of the j-th log of E for every           *)
(* j <= min(|E|, N), the runs after that have no output, and no log below  *)
(* the threshold was assigned.                                             *)
C2_Eligible ==
    {n \in DOMAIN logs : EndsWithLog(n) /\ IsSet(Strptime(n))
                          /\ Val(Strptime(n)) >= Val(resume)}
C2_ResumeFillsPrefix ==
    (pc = "run_commands" /\ IsSet(resume)) =>
        /\ \A j \in DOMAIN runs :
              IF j <= Cardinality(C2_Eligible)
              THEN \E n \in C2_Eligible :
                      /\ Cardinality({m \in C2_Eligible : NameOrd(m) < NameOrd(n)}) = j - 1
                      /\ runs[j].output = Some(logs[n])
              ELSE runs[j].output = None
        /\ \A w \in Range(writes) : Val(Strptime(w[3])) >= Val(resume)

C2_Witness ==
    /\ pc = "run_commands" /\ resume = Some(2) /\ Len(runs) >= 3
    /\ DOMAIN logs = {"2023-01-01_10:00:00_a.log", "2023-01-02_10:00:00_a.log",
                      "2023-01-03_10:00:00_a.log"}
    /\ runs[1].output = Some(logs["2023-01-02_10:00:00_a.log"])
    /\ runs[2].output = Some(logs["2023-01-03_10:00:00_a.log"])
    /\ runs[3].output = None

(* C3: fatal abort.  Once an invocation has returned error output, the     *)
(* pipeline is at sys.exit(): nothing is in flight, no run has usage,      *)
(* latency or a latency breakdown, the reporter was not called, and no     *)
(* step follows (no further command, no metric, no report).                *)
C3_NoMetrics ==
    \A k \in DOMAIN runs :
        runs[k].usage = None /\ runs[k].latency = None /\ runs[k].latency_breakdown = None
C3_FatalAbort ==
    /\ [](errors > 0 => pc = "exit" /\ inflight = {} /\ reported = <<>> /\ C3_NoMetrics)
    /\ [][errors > 0 => calls' = calls /\ runs' = runs /\ reported' = reported]_vars

C3_Witness ==
    /\ errors > 0 /\ pc = "exit" /\ Len(calls) >= 2
    /\ \E w \in Range(writes) : w[2] = "resume"
    /\ \E w \in Range(writes) : w[2] = "execution"

(* C4: write-once rawOutput.  A run's output, once set, never changes; it  *)
(* is assigned at most once over the whole pipeline, so a run filled by    *)
(* resume is never filled by execution and the other way round.            *)
C4_WriteOnce ==
    /\ [][\A k \in DOMAIN runs :
            IsSet(runs[k].output) =>
                k \in DOMAIN runs' /\ runs'[k].output = runs[k].output]_vars
    /\ [](\A a, b \in DOMAIN writes : a # b => writes[a][1] # writes[b][1])
    /\ [](\A k \in DOMAIN runs :
            IsSet(runs[k].output) <=> \E w \in Range(writes) : w[1] = k)

C4_Witness ==
    /\ pc = "parse_output"
    /\ \E w \in Range(writes) : w[2] = "resume"
    /\ \E w \in Range(writes) : w[2] = "execution"

(* C5: execute is called at most once at a time, in increasing run order,  *)
(* never for a resumed run; when run_commands has returned (no execution   *)
(* failed), it was called exactly once for each run the resume pass left   *)
(* without output.                                                         *)
C5_Resumed == {w[1] : w \in {x \in Range(writes) : x[2] = "resume"}}
C5_ExecuteOncePerPendingRun ==
    /\ Cardinality(inflight) <= 1
    /\ inflight # {} => calls # <<>> /\ inflight = {calls[Len(calls)]}
    /\ \A a, b \in DOMAIN calls : a < b => calls[a] < calls[b]
    /\ \A a \in DOMAIN calls : calls[a] \notin C5_Resumed
    /\ pc \in {"parse_output", "plot", "print_result", "done"} =>
          Range(calls) = DOMAIN runs \ C5_Resumed

C5_Witness ==
    /\ pc = "parse_output" /\ errors = 0
    /\ C5_Resumed # {} /\ Len(calls) >= 2

(* C6: check_resume runs once, before the first external command; after   *)
(* the first invocation has started no log is assigned by resume.          *)
C6_ResumeOnceBeforeExecution ==
    /\ [](resumed <= 1)
    /\ [](calls # <<>> \/ pc \in {"run_commands", "execute", "parse_output"} => resumed = 1)
    /\ [][calls # <<>> =>
            /\ resumed' = resumed
            /\ \A w \in Range(writes') \ Range(writes) : w[2] # "resume"]_vars

C6_Witness ==
    /\ calls # <<>> /\ resumed = 1
    /\ \E w \in Range(writes) : w[2] = "resume"

(* C7: a run that has usage or latency set has an output that is set and   *)
(* not empty, with the marker in it, and its metrics are those of the two  *)
(* tables read after the first marker line of its own output.              *)
C7_Aggregate(series) ==
    IF experiment = "EndpointScaling" THEN SeriesMean(series) ELSE SeriesMin(series)
C7_MetricsFromOwnOutput ==
    \A k \in DOMAIN runs :
        LET run == runs[k]
        IN  (IsSet(run.usage) \/ IsSet(run.latency)) =>
            /\ IsSet(run.output) /\ Val(run.output) # <<>>
            /\ \E m \in DOMAIN Val(run.output) : HasMarker(Val(run.output)[m])
            /\ LET out == Val(run.output)
                   m == CHOOSE m \in DOMAIN out :
                            HasMarker(out[m]) /\ \A h \in 1..(m - 1) : ~HasMarker(out[h])
                   wl == m + 1
                   el == IF run.mode = "endpoint" THEN m + 1 ELSE m + 2
               IN  /\ wl <= Len(out) /\ el <= Len(out)
                   /\ Table(out[wl]).ok /\ Table(out[el]).ok
                   /\ run.usage = Some(Usage(C7_Aggregate(
                          ToNumeric(Table(out[wl]), "proc_time/data (ms)")), run))
                   /\ IsSet(run.latency) =>
                          run.latency = Some(int(C7_Aggregate(
                              ToNumeric(Table(out[el]), "latency_avg (ms)"))))

C7_Witness ==
    /\ pc = "plot"
    /\ \E k \in DOMAIN runs : Cardinality({m \in DOMAIN Val(runs[k].output) :
                                   HasMarker(Val(runs[k].output)[m])}) = 2
    /\ \E k \in DOMAIN runs : runs[k].mode = "endpoint" /\ IsSet(runs[k].latency)

(* C8: after generate has returned, no stage inserts, removes or reorders  *)
(* runs: the sequence of (mode, cores, endpoints, command) stays as it is. *)
C8_Configurations(rs) ==
    [k \in DOMAIN rs |-> <<rs[k].mode, rs[k].cores, rs[k].endpoints, rs[k].command>>]
C8_RunListFixed ==
    [][pc # "generate" => C8_Configurations(runs') = C8_Configurations(runs)]_vars

C8_Witness ==
    /\ pc = "done" /\ Len(runs) = 9
    /\ \E w \in Range(writes) : w[2] = "resume"
    /\ \E w \in Range(writes) : w[2] = "execution"

(* C9 as stated: usage is round(requestedRate / processedRate * 100), the  *)
(* nearest integer to the quotient, with requestedRate = 5 * endpoints and *)
(* processedRate = 1000 / aggregate * cores (mean of the worker's          *)
(* proc_time/data in EndpointScaling, min in Deployments).                 *)
(* With aggregate = a.n / a.d the quotient is                              *)
(* (5 * endpoints * 100 * a.n) / (1000 * cores * a.d).                     *)
C9_Aggregate(run) ==
    LET out == Val(run.output)
        m == CHOOSE m \in DOMAIN out : HasMarker(out[m])
        series == ToNumeric(Table(out[m + 1]), "proc_time/data (ms)")
    IN  IF experiment = "EndpointScaling" THEN SeriesMean(series) ELSE SeriesMin(series)
C9_Numerator(run) == 5 * run.endpoints * 100 * C9_Aggregate(run).n
C9_Denominator(run) == 1000 * run.cores * C9_Aggregate(run).d
C9_UsageIsRounded ==
    \A k \in DOMAIN runs :
        IsSet(runs[k].usage) =>
            LET u == Val(runs[k].usage)
            IN  /\ 2 * u * C9_Denominator(runs[k]) <= 2 * C9_Numerator(runs[k]) + C9_Denominator(runs[k])
                /\ 2 * C9_Numerator(runs[k]) - C9_Denominator(runs[k]) <= 2 * u * C9_Denominator(runs[k])

(* C9 as amended: usage is int(requestedRate / processedRate * 100), the   *)
(* quotient truncated to its integer part, not rounded; it is not clamped  *)
(* and may exceed 100.                                                     *)
C9_UsageIsTruncated ==
    \A k \in DOMAIN runs :
        IsSet(runs[k].usage) =>
            LET u == Val(runs[k].usage)
            IN  /\ u * C9_Denominator(runs[k]) <= C9_Numerator(runs[k])
                /\ C9_Numerator(runs[k]) < (u + 1) * C9_Denominator(runs[k])

C9_Witness ==
    /\ experiment = "EndpointScaling" /\ pc = "plot"
    /\ runs[2].cores = 4 /\ runs[2].endpoints = 2 /\ runs[2].usage = Some(25)
    /\ \E k \in DOMAIN runs : Val(runs[k].usage) > 100

(* C10 as stated: latency_breakdown = [processing, communication] with     *)
(* processing = min(worker proc_time/data) and communication =             *)
(* min(latency_avg) - min(preproc_time/data) - min(proc_time/data), as     *)
(* computed.                                                               *)
C10_Min(run, table, column) ==
    LET out == Val(run.output)
        m == CHOOSE m \in DOMAIN out : HasMarker(out[m])
    IN  SeriesMin(ToNumeric(Table(out[m + table]), column))
C10_Processing(run) == C10_Min(run, 1, "proc_time/data (ms)")
C10_Communication(run) ==
    FSub(FSub(C10_Min(run, 2, "latency_avg (ms)"), C10_Min(run, 2, "preproc_time/data (ms)")),
         C10_Min(run, 1, "proc_time/data (ms)"))
C10_BreakdownIsExact ==
    \A k \in DOMAIN runs :
        IsSet(runs[k].latency_breakdown) =>
            LET b == Val(runs[k].latency_breakdown)
            IN  /\ b[1] * C10_Processing(runs[k]).d = C10_Processing(runs[k]).n
                /\ b[2] * C10_Communication(runs[k]).d = C10_Communication(runs[k]).n

(* C10 as amended: each of the two entries is the value above truncated    *)
(* toward zero to an integer (int()); nothing is clamped, so a             *)
(* communication of -1 or less stays negative.                             *)
C10_TruncatedTo(t, x) ==
    IF x.n >= 0 THEN t * x.d <= x.n /\ x.n < (t + 1) * x.d
    ELSE (t - 1) * x.d < x.n /\ x.n <= t * x.d
C10_BreakdownIsTruncated ==
    \A k \in DOMAIN runs :
        IsSet(runs[k].latency_breakdown) =>
            LET b == Val(runs[k].latency_breakdown)
            IN  /\ Len(b) = 2
                /\ C10_TruncatedTo(b[1], C10_Processing(runs[k]))
                /\ C10_TruncatedTo(b[2], C10_Communication(runs[k]))

C10_Witness ==
    /\ experiment = "Deployments" /\ pc = "plot"
    /\ \E k \in DOMAIN runs :
          /\ Val(runs[k].latency_breakdown)[2] < 0
          /\ C10_Communication(runs[k]).n % C10_Communication(runs[k]).d # 0

(* C11 as stated: latency is round(aggregate(endpoint latency_avg)), the  *)
(* nearest integer to the aggregate (either neighbour at a tie), with the  *)
(* aggregate of the experiment: mean in EndpointScaling, min in            *)
(* Deployments.                                                            *)
C11_Aggregate(run) ==
    LET out == Val(run.output)
        m == CHOOSE m \in DOMAIN out : HasMarker(out[m])
        el == IF run.mode = "endpoint" THEN m + 1 ELSE m + 2
        series == ToNumeric(Table(out[el]), "latency_avg (ms)")
    IN  IF experiment = "EndpointScaling" THEN SeriesMean(series) ELSE SeriesMin(series)
C11_LatencyIsRounded ==
    \A k \in DOMAIN runs :
        IsSet(runs[k].latency) =>
            LET l == Val(runs[k].latency)
                a == C11_Aggregate(runs[k])
            IN  /\ 2 * l * a.d <= 2 * a.n + a.d
                /\ 2 * a.n - a.d <= 2 * l * a.d

(* C11 as amended: latency is int(aggregate(endpoint latency_avg)), the    *)
(* aggregate truncated toward zero to an integer, with mean in             *)
(* EndpointScaling and min in Deployments.                                 *)
C11_LatencyIsTruncated ==
    \A k \in DOMAIN runs :
        IsSet(runs[k].latency) =>
            LET l == Val(runs[k].latency)
                a == C11_Aggregate(runs[k])
            IN  IF a.n >= 0 THEN l * a.d <= a.n /\ a.n < (l + 1) * a.d
                ELSE (l - 1) * a.d < a.n /\ a.n <= l * a.d

C11_Witness ==
    /\ pc = "plot"
    /\ \E k \in DOMAIN runs :
          LET a == C11_Aggregate(runs[k])
          IN  /\ IsSet(runs[k].latency)
              /\ 2 * (a.n % a.d) > a.d
              /\ Val(runs[k].latency) = a.n \div a.d

(* C12: payload round trip.  For every table t of text fields (no comma,  *)
(* no escaped newline in a field), when the payload line read for the      *)
(* worker is the encoding of t, the table built from it has t's header and *)
(* t's rows in t's order, the index field dropped from every row; the same *)
(* for the endpoint's line and table.  A cell is the field's text, or the  *)
(* float of that text in a column the experiment converts with to_numeric. *)
C12_Decoded(df, t, numeric) ==
    /\ df.ok
    /\ df.columns = t.header
    /\ Len(df.rows) = Len(t.rows)
    /\ \A r \in DOMAIN t.rows :
          /\ Len(df.rows[r]) = Len(t.rows[r])
          /\ \A c \in DOMAIN t.rows[r] :
                \/ df.rows[r][c] = Some(t.rows[r][c])
                \/ /\ \E n \in Range(numeric) : t.header[c] = <<n>>
                   /\ df.rows[r][c] = Float(CellValue(Some(t.rows[r][c])))
C12_Last == IF pc = "raised" THEN run_i ELSE run_i - 1
C12_PayloadRoundTrip ==
    \A t \in Tables(MaxTableRows) :
        (C12_Last \in DOMAIN runs
         /\ Val(runs[C12_Last].output)[3] = PayloadLine(t.header, t.rows)) =>
            /\ wdf # None /\ C12_Decoded(Val(wdf), t, WorkerNumeric(experiment))
            /\ edf # None =>
                 C12_Decoded(Val(edf),
                             IF runs[C12_Last].mode = "endpoint" THEN t
                             ELSE [t EXCEPT !.rows = Reverse(t.rows)],
                             EndpointNumeric(experiment))

C12_Witness ==
    /\ pc = "raised" /\ exception = Some("KeyError")
    /\ wdf # None
    /\ Val(wdf).columns = << <<"a">>, <<"b">> >>
    /\ Val(wdf).rows = << <<Some(<<"1">>), Some(<<"2">>)>>, <<Some(<<"3">>), Some(<<"4">>)>> >>

(* C13: parse_output is idempotent.  An iteration of parse_output never   *)
(* changes a run's output, and it leaves a run that already has metrics    *)
(* (from the call before) exactly as it is; and the metrics a run has are  *)
(* those computed from its own output, mode, cores and endpoints alone,    *)
(* whatever its place in the list and whatever the iterations and calls    *)
(* before left behind.                                                     *)
C13_HasMetric(run) == IsSet(run.usage) \/ IsSet(run.latency) \/ IsSet(run.latency_breakdown)
C13_Alone(run) ==
    ParseRun(experiment,
             << [NewRun(run.mode, run.cores, run.endpoints, None, <<>>)
                   EXCEPT !.output = run.output] >>,
             1, None, None, None).run
C13_Idempotent ==
    /\ [][/\ Len(runs') = Len(runs)
          /\ \A k \in DOMAIN runs :
                /\ runs'[k].output = runs[k].output
                /\ C13_HasMetric(runs[k]) => runs'[k] = runs[k]]_vars
    /\ [](\A k \in DOMAIN runs :
             C13_HasMetric(runs[k]) =>
                /\ runs[k].usage = C13_Alone(runs[k]).usage
                /\ runs[k].latency = C13_Alone(runs[k]).latency
                /\ runs[k].latency_breakdown = C13_Alone(runs[k]).latency_breakdown)

C13_Witness ==
    /\ pc = "parse_output" /\ run_i > 1 /\ i = Some(1)
    /\ IsSet(runs[run_i].usage) /\ ~IsSet(runs[run_i].latency)
    /\ \A k \in 1..(run_i - 1) : IsSet(runs[k].latency)

(* C14: when no line of a run's output has the marker, the extraction of  *)
(* that run ends in an explicit extraction error at that run (not in an    *)
(* IndexError or an UnboundLocalError), and the run has no metrics.        *)
C14_NoMarker(run) ==
    IsSet(run.output) /\ \A m \in DOMAIN Val(run.output) : ~HasMarker(Val(run.output)[m])
C14_Visited(k) ==
    \/ pc = "raised" /\ run_i >= k
    \/ pc \in {"parse_output", "plot"} /\ run_i > k
C14_ExplicitExtractionError ==
    \A k \in DOMAIN runs :
        C14_NoMarker(runs[k]) =>
            /\ ~IsSet(runs[k].usage) /\ ~IsSet(runs[k].latency)
            /\ ~IsSet(runs[k].latency_breakdown)
            /\ C14_Visited(k) =>
                  /\ pc = "raised" /\ run_i = k
                  /\ exception = Some("ExtractionError")

(* C15: when a table of a run's output has a data row with fewer or more   *)
(* fields than the header, or a cell of a numeric column that is not the   *)
(* text of a number, the extraction of that run ends in an error and the   *)
(* run has no metrics.                                                     *)
C15_BadRows(line, numeric) ==
    LET rows == PayloadRows(Slice1m4(line))
    IN  \E r \in 2..Len(rows) :
           \/ Len(rows[r]) # Len(rows[1])
           \/ \E c \in DOMAIN rows[r] :
                 /\ c \in DOMAIN rows[1]
                 /\ \E n \in Range(numeric) : rows[1][c] = <<n>>
                 /\ rows[r][c] # <<>> /\ ~IsNumeral(rows[r][c])
C15_Malformed(run) ==
    /\ IsSet(run.output)
    /\ LET out == Val(run.output)
           hits == {m \in DOMAIN out : HasMarker(out[m])}
       IN  /\ hits # {}
           /\ LET m == CHOOSE m \in hits : \A h \in hits : m <= h
                  el == IF run.mode = "endpoint" THEN m + 1 ELSE m + 2
              IN  /\ el <= Len(out)
                  /\ \/ C15_BadRows(out[m + 1], WorkerNumeric(experiment))
                     \/ C15_BadRows(out[el], EndpointNumeric(experiment))
C15_MalformedPayloadIsError ==
    \A k \in DOMAIN runs :
        C15_Malformed(runs[k]) =>
            /\ ~IsSet(runs[k].usage) /\ ~IsSet(runs[k].latency)
            /\ ~IsSet(runs[k].latency_breakdown)
            /\ C14_Visited(k) => pc = "raised" /\ run_i = k /\ exception # None

C17_FailureIsDistinguishable ==
    errors > 0 =>
        /\ pc = "exit"
        /\ exit_status # None /\ Val(exit_status) # 0

(* C18 as stated: for every list of endpoint counts, after                 *)
(* EndpointScaling.generate with the modes cloud, edge, endpoint there is  *)
(* exactly one run of mode endpoint, and cloud and edge have one run per   *)
(* entry of the list each.                                                 *)
C18_RunsOf(mode) == Cardinality({k \in DOMAIN runs : runs[k].mode = mode})
C19_Named(stdout) == LogPath(stdout[1])
C19_Succeeded(r) ==
    /\ r.stderr = <<>> /\ r.stdout # <<>>
    /\ Len(C19_Named(r.stdout)) = 1 /\ C19_Named(r.stdout)[1] \in DOMAIN logs
C19_OutputIsNamedLog ==
    (returned # None /\ C19_Succeeded(Val(returned))) =>
        LET r == Val(returned)
            k == calls[Len(calls)]
            name == C19_Named(r.stdout)[1]
        IN  /\ runs[k].output = Some(logs[name])
            /\ runs[k].output # Some(r.stdout)
            /\ writes[Len(writes)] = <<k, "execution", name>>

C19_Witness ==
    /\ pc = "parse_output"
    /\ returned # None /\ Len(Val(returned).stdout) = 2
    /\ calls[Len(calls)] = Len(runs)
    /\ IsSet(runs[Len(runs)].output)

(* C20: a directory entry without the <date>_<time> prefix in              *)
(* YYYY-MM-DD_HH:MM:SS form or without the log suffix is ignored by the    *)
(* resume scan: the scan ends as it ends on the directory without these    *)
(* entries, with the same assignments to the same runs in the same order   *)
(* and without an exception of its own.                                    *)
C20_NonConforming ==
    {"notes.log", "EndpointScaling_load_2023-01-02_10:00:00.pdf", "2023-01-1_10:00:00_a.log"}
C20_NonConformingIgnored ==
    resumed > 0 =>
        LET clean == [name \in (DOMAIN logs) \ C20_NonConforming |-> logs[name]]
            r == check_resume(clean, resume,
                              generate(experiment, configs, modes, cores, endpoints), <<>>)
        IN  /\ runs = r.runs
            /\ writes = r.writes
            /\ (pc = "raised") = r.raised
            /\ \A w \in DOMAIN writes : writes[w][3] \notin C20_NonConforming

(* C21: output shape selection.  After an iteration of parse_output over a *)
(* well-formed log (it does not raise), the worker table is the table of   *)
(* the line right after the first line with the marker; the endpoint table *)
(* is the table of the line after that one when the run's mode is not      *)
(* endpoint, and the table of the same line as the worker's when it is.    *)
C21_FirstMarker(output) ==
    CHOOSE m \in DOMAIN output :
        HasMarker(output[m]) /\ \A j \in 1..(m - 1) : ~HasMarker(output[j])
C21_TableOf(line, numeric) == CoerceAll(Table(line), numeric).df
C21_ShapeSelection ==
    /\ pc # "raised"
    /\ (pc = "parse_output" /\ run_i > 1) =>
          LET run == runs[run_i - 1]
              output == Val(run.output)
              m == C21_FirstMarker(output)
          IN  /\ wdf = Some(C21_TableOf(output[m + 1], WorkerNumeric(experiment)))
              /\ run.mode # "endpoint" =>
                    edf = Some(C21_TableOf(output[m + 2], EndpointNumeric(experiment)))
              /\ run.mode = "endpoint" =>
                    edf = Some(C21_TableOf(output[m + 1], EndpointNumeric(experiment)))

C21_Witness ==
    /\ pc = "parse_output" /\ run_i > 1
    /\ runs[run_i - 1].mode = "endpoint"
    /\ LET output == Val(runs[run_i - 1].output)
       IN  /\ C21_FirstMarker(output) = 3
           /\ Len(output) = 6
           /\ HasMarker(output[5])
    /\ edf # None /\ wdf # None
    /\ Val(edf).columns = SingleHeader
    /\ IsSet(runs[run_i - 1].latency)

(* C22: resume matching is content-independent.  After check_resume, the   *)
(* assignments (which file went to which run index, in which order) and    *)
(* whether the scan raised are those of the scan with the same threshold   *)
(* over the directory of the same names in which every file holds other    *)
(* content (its own name) and over a run list of the same length whose     *)
(* runs all have the same mode, cores, endpoints and command; and every    *)
(* assigned run holds the content of the file of the assigned name.        *)
C22_Renamed == [name \in DOMAIN logs |-> OwnName(name)]
C22_Blank == [k \in DOMAIN runs |-> NewRun("cloud", 1, 1, None, <<"true">>)]
C22_ContentIndependent ==
    resumed > 0 =>
        LET r == check_resume(C22_Renamed, resume, C22_Blank, <<>>)
        IN  /\ writes = r.writes
            /\ (pc = "raised") = r.raised
            /\ \A j \in DOMAIN writes :
                  /\ runs[writes[j][1]].output = Some(logs[writes[j][3]])
                  /\ r.runs[writes[j][1]].output = Some(OwnName(writes[j][3]))

C22_Witness ==
    /\ resumed > 0 /\ pc # "raised"
    /\ Len(writes) = 2
    /\ logs[writes[1][3]] = EmptyOutput
    /\ logs[writes[2][3]] = GoodOutput("cloud")
    /\ runs[1].output = Some(EmptyOutput)
    /\ runs[2].output = Some(GoodOutput("cloud"))
    /\ Cardinality(DOMAIN logs) = 3

(* C23: for every program of the child (each terminates when its writes    *)
(* are not blocked), execute eventually returns, with all the lines the    *)
(* program writes to its standard output and all the lines it writes to    *)
(* its standard error, each in the order written.                          *)
C23_Written(op) ==
    LET at == SelectSeq([k \in DOMAIN pipes.program |-> k],
                        LAMBDA k : pipes.program[k] = op)
    IN  [k \in DOMAIN at |-> WrittenLine(op, at[k])]
C23_ExecuteReturns ==
    <>(/\ pipes.phase = "returned"
       /\ returned = Some([stdout |-> C23_Written("out"), stderr |-> C23_Written("err")]))

(* C24: whenever plot or print_result is about to run or has run, every    *)
(* run has output, usage and latency set, its output was assigned by the   *)
(* resume scan or after an invocation, no invocation wrote error output,   *)
(* and no exception was raised: a pipeline in which an invocation failed   *)
(* or parse_output raised never gets to the reporter, and plot finds every *)
(* key it reads.                                                           *)
C24_Complete(run) == IsSet(run.output) /\ IsSet(run.usage) /\ IsSet(run.latency)
C24_ReporterSeesCompleteRuns ==
    /\ (pc \in {"plot", "print_result"} \/ reported # <<>>) =>
          /\ \A k \in DOMAIN runs :
                /\ C24_Complete(runs[k])
                /\ \E w \in DOMAIN writes : writes[w][1] = k
          /\ errors = 0
          /\ exception = None
    /\ (pc \in {"raised", "exit"}) => reported = <<>>

C24_Witness ==
    /\ reported = <<"plot", "print_result">>
    /\ \E w \in DOMAIN writes : writes[w][2] = "resume"
    /\ \E w \in DOMAIN writes : writes[w][2] = "execution"
    /\ \A k \in DOMAIN runs : C24_Complete(runs[k])
====
